---- MODULE Spec2Model ----
(***************************************************************************)
(* Customer segmentation: the feature pipeline (preprocessing.py), the     *)
(* training run (train.py) and the serving handlers (inference.py).        *)
(*                                                                         *)
(* Numbers.  A cell of a DataFrame is a record: a string, or a number n/d  *)
(* kept as an exact non-negative fraction.  d = 0 encodes what IEEE        *)
(* division by zero produces: n # 0 is +inf, n = 0 is NaN.  From the       *)
(* Normalizer on (a square root is taken there) values are fixed-point     *)
(* integers.                                                               *)
(***************************************************************************)
EXTENDS Integers, Sequences, FiniteSets, TLC

(***************************************************************************)
(* Bounds of the model                                                     *)
(***************************************************************************)
\* Largest batch (number of rows) enumerated for the Feature Deriver.
MaxRows == 4

\* Largest n_clusters a training run is started with.
MaxK == 4

\* Fixed-point scale of a feature value entering the Normalizer.
Scale == 10

\* Fixed-point scale of the values from the Normalizer on: 1.0 is Unit.
Unit == 1000

(***************************************************************************)
(* Cells and arithmetic                                                    *)
(***************************************************************************)
Num(n, d) == [t |-> "num", n |-> n, d |-> d, s |-> ""]

IntCell(i) == Num(i, 1)

Str(x) == [t |-> "str", n |-> 0, d |-> 0, s |-> x]

NaN == Num(0, 0)

Inf == Num(1, 0)

IsNum(c) == c.t = "num"

IsNaN(c) == IsNum(c) /\ c.d = 0 /\ c.n = 0

IsInf(c) == IsNum(c) /\ c.d = 0 /\ c.n # 0

IsFinite(c) == IsNum(c) /\ c.d # 0

\* Float division a / b of non-negative numbers: x/0 is inf, 0/0 is NaN,
\* x/inf is 0, and NaN propagates; no exception is raised (numpy semantics).
Div(a, b) ==
    LET n == a.n * b.d
        d == a.d * b.n
    IN  IF d = 0 THEN (IF n = 0 THEN NaN ELSE Inf) ELSE Num(n, d)

\* a + b for finite cells.
Add(a, b) == Num(a.n * b.d + b.n * a.d, a.d * b.d)

\* a <= b for finite cells.
Leq(a, b) == a.n * b.d <= b.n * a.d

\* value == integer i, for a finite cell.
EqInt(a, i) == a.n = i * a.d

(***************************************************************************)
(* Sequences                                                               *)
(***************************************************************************)
Range(s) == {s[i] : i \in 1..Len(s)}

\* The element of a one-element set.  { e(x) : x \in {v} } binds x to the
\* value of v, so that v is evaluated once however often e uses x.
Only(S) == CHOOSE x \in S : TRUE

Contains(s, x) == \E i \in 1..Len(s) : s[i] = x

Reverse(s) == [i \in 1..Len(s) |-> s[Len(s) + 1 - i]]

RECURSIVE Without(_, _)
\* s without the elements of set xs, order kept.
Without(s, xs) ==
    IF s = <<>> THEN <<>>
    ELSE IF Head(s) \in xs THEN Without(Tail(s), xs)
         ELSE <<Head(s)>> \o Without(Tail(s), xs)

RECURSIVE SumSeq(_)
SumSeq(s) == IF s = <<>> THEN 0 ELSE Head(s) + SumSeq(Tail(s))

RECURSIVE Insert(_, _)
Insert(x, s) ==
    IF s = <<>> THEN <<x>>
    ELSE IF x <= Head(s) THEN <<x>> \o s
         ELSE <<Head(s)>> \o Insert(x, Tail(s))

RECURSIVE Sorted(_)
Sorted(s) == IF s = <<>> THEN <<>> ELSE Insert(Head(s), Sorted(Tail(s)))

MaxOf(s) == CHOOSE x \in Range(s) : \A y \in Range(s) : y <= x

(***************************************************************************)
(* DataFrames: an ordered list of column names and a list of rows, each    *)
(* row a function from column name to cell.                                *)
(***************************************************************************)
Frame(cols, rows) == [cols |-> cols, rows |-> rows]

NRows(df) == Len(df.rows)

HasCol(df, c) == Contains(df.cols, c)

\* df[c] as a sequence of cells.
Col(df, c) == [i \in 1..NRows(df) |-> df.rows[i][c]]

\* df[c] = vals: a new column is appended, an existing one is replaced in place.
SetCol(df, c, vals) ==
    Frame(IF HasCol(df, c) THEN df.cols ELSE Append(df.cols, c),
          [i \in 1..NRows(df) |->
              [k \in Range(df.cols) \cup {c} |->
                  IF k = c THEN vals[i] ELSE df.rows[i][k]]])

\* pd.concat([a, b], axis=1) for frames over the same rows and disjoint columns.
ConcatCols(a, b) ==
    Frame(a.cols \o b.cols,
          [i \in 1..NRows(a) |->
              [k \in Range(a.cols) \cup Range(b.cols) |->
                  IF Contains(a.cols, k) THEN a.rows[i][k] ELSE b.rows[i][k]]])

\* df[names]: the named columns, in the order of names.
Select(df, names) ==
    Frame(names,
          [i \in 1..NRows(df) |-> [k \in Range(names) |-> df.rows[i][k]]])

\* df.drop(names, axis=1): the other columns, in table order.
Drop(df, names) ==
    Select(df, Without(df.cols, Range(names)))

(***************************************************************************)
(* preprocessing.py: calculate_derived_features                            *)
(***************************************************************************)
\* Age brackets.
YoungMaxAge == 30

MiddleMaxAge == 50

\* q of pd.qcut: the number of quantile bins.
Q == 4

\* The divisor of Income in Age_Income_Ratio.
IncomeUnit == 1000

QuartileLabels == <<"Q1_Low", "Q2_Medium_Low", "Q3_Medium_High", "Q4_High">>

\* An exception: its type and the columns its message names.
Exception(type, names) == [type |-> type, names |-> names]

NoException == Exception("", <<>>)

Ok(df) == [ok |-> TRUE, err |-> NoException, df |-> df]

Raise(e) == [ok |-> FALSE, err |-> e, df |-> Frame(<<>>, <<>>)]

\* A column that holds text where the arithmetic needs numbers.
NonNumeric(df, c) == \E i \in 1..NRows(df) : ~IsNum(df.rows[i][c])

\* Series.quantile(k/Q), linear interpolation, times Q (to stay integral):
\* at position (N-1)*k/Q of the sorted values.
QuantileTimesQ(sorted, k) ==
    LET pos == (Len(sorted) - 1) * k
        i   == (pos \div Q) + 1
        r   == pos % Q
    IN  IF r = 0 THEN Q * sorted[i]
        ELSE Q * sorted[i] + r * (sorted[i + 1] - sorted[i])

\* The Q+1 bin edges of pd.qcut(series, q=Q), times Q.
QcutBins(vals) ==
    LET sorted == Sorted([i \in 1..Len(vals) |-> vals[i].n])
    IN  [j \in 1..(Q + 1) |-> QuantileTimesQ(sorted, j - 1)]

\* _bins_to_cuts raises ValueError("Bin edges must be unique") on duplicate
\* edges; the quantiles of an empty series are all NaN, hence duplicates.
QcutRaises(vals) ==
    \/ Len(vals) = 0
    \/ LET bins == QcutBins(vals)
       IN  \E j \in 1..Q : bins[j] = bins[j + 1]

\* The category (1..Q) pd.qcut gives value x: bins.searchsorted(x, side="left"),
\* with the lowest edge included in the first bin.
QcutCategory(bins, x) ==
    IF Q * x.n = bins[1] THEN 1
    ELSE Cardinality({j \in 1..(Q + 1) : bins[j] < Q * x.n})

\* pd.get_dummies(categories, prefix=prefix, drop_first=True, dtype=int): one
\* column per category but the first, whether or not a value falls in it.
GetDummies(vals, prefix) ==
    LET bins == QcutBins(vals)
    IN  Frame([j \in 1..(Q - 1) |-> prefix \o "_" \o QuartileLabels[j + 1]],
              [i \in 1..Len(vals) |->
                  [k \in {prefix \o "_" \o QuartileLabels[j + 1] : j \in 1..(Q - 1)} |->
                      IntCell(IF k = prefix \o "_" \o QuartileLabels[QcutCategory(bins, vals[i])]
                              THEN 1 ELSE 0)]])

Bool(b) == IntCell(IF b THEN 1 ELSE 0)

\* Series.mean() of the rows of column c whose Gender is g: NaN when there is none.
GenderMean(df, g, c) ==
    LET idx == {i \in 1..NRows(df) : df.rows[i]["Gender"] = Str(g)}
        vals == [i \in 1..NRows(df) |-> IF i \in idx THEN df.rows[i][c].n ELSE 0]
    IN  Num(SumSeq(vals), Cardinality(idx))

\* The raw fields of a customer record, in the order of input_fn's
\* required_columns (inference.py line 73).
RawColumns == <<"Age", "Income", "Purchases", "Gender">>

\* The table after the derived columns are added (lines 25-87), for a frame
\* that has the columns read and whose quantile edges are unique.
DerivedColumns(df) ==
    LET n   == NRows(df)
        age == Col(df, "Age")
        inc == Col(df, "Income")
        pur == Col(df, "Purchases")
        gen == Col(df, "Gender")
        d1  == SetCol(df, "Is_Young_Adult",
                      [i \in 1..n |-> Bool(Leq(age[i], IntCell(YoungMaxAge)))])
        d2  == SetCol(d1, "Is_Middle_Aged",
                      [i \in 1..n |-> Bool(~Leq(age[i], IntCell(YoungMaxAge))
                                           /\ Leq(age[i], IntCell(MiddleMaxAge)))])
        d3  == SetCol(d2, "Is_Senior",
                      [i \in 1..n |-> Bool(~Leq(age[i], IntCell(MiddleMaxAge)))])
        d4  == SetCol(d3, "IS_MALE", [i \in 1..n |-> Bool(gen[i] = Str("Male"))])
        d5  == ConcatCols(d4, GetDummies(inc, "Income_Quartile"))
        d6  == SetCol(d5, "Income_Age_Ratio", [i \in 1..n |-> Div(inc[i], age[i])])
        d7  == ConcatCols(d6, GetDummies(pur, "Purchase_Quartile"))
        max_purchases == IntCell(MaxOf([i \in 1..n |-> pur[i].n]))
        d8  == SetCol(d7, "Purchase_Intensity",
                      [i \in 1..n |-> Div(pur[i], max_purchases)])
        d9  == SetCol(d8, "Age_Income_Ratio",
                      [i \in 1..n |-> Div(age[i], Div(inc[i], IntCell(IncomeUnit)))])
        d10 == SetCol(d9, "Purchase_Age_Ratio", [i \in 1..n |-> Div(pur[i], age[i])])
        male_avg_income      == GenderMean(df, "Male", "Income")
        female_avg_income    == GenderMean(df, "Female", "Income")
        male_avg_purchases   == GenderMean(df, "Male", "Purchases")
        female_avg_purchases == GenderMean(df, "Female", "Purchases")
        d11 == SetCol(d10, "Income_Relative_To_Gender_Avg",
                      [i \in 1..n |-> IF gen[i] = Str("Male")
                                      THEN Div(inc[i], male_avg_income)
                                      ELSE Div(inc[i], female_avg_income)])
    IN  SetCol(d11, "Purchases_Relative_To_Gender_Avg",
               [i \in 1..n |-> IF gen[i] = Str("Male")
                               THEN Div(pur[i], male_avg_purchases)
                               ELSE Div(pur[i], female_avg_purchases)])

\* calculate_derived_features(df): the engineered table, or the exception raised.
\* The argument is copied first (line 25), so the caller's frame is not written.
\* The statements run in order and the first that raises ends the call:
\* df['Age'] <= 30 (line 28: KeyError 'Age', or TypeError for str <= int),
\* df['Gender'] (line 33), pd.qcut(df['Income']) (line 36: KeyError, TypeError
\* for text, ValueError for duplicate edges), pd.qcut(df['Purchases']) (line
\* 50), drop(['Gender', 'Customer_ID']) (line 90).  Only a KeyError's message
\* names a column.
calculate_derived_features(df) ==
    IF ~HasCol(df, "Age") THEN Raise(Exception("KeyError", <<"Age">>))
    ELSE IF NonNumeric(df, "Age") THEN Raise(Exception("TypeError", <<>>))
    ELSE IF ~HasCol(df, "Gender") THEN Raise(Exception("KeyError", <<"Gender">>))
    ELSE IF ~HasCol(df, "Income") THEN Raise(Exception("KeyError", <<"Income">>))
    ELSE IF NonNumeric(df, "Income") THEN Raise(Exception("TypeError", <<>>))
    ELSE IF QcutRaises(Col(df, "Income")) THEN Raise(Exception("ValueError", <<>>))
    ELSE IF ~HasCol(df, "Purchases")
    THEN Raise(Exception("KeyError", <<"Purchases">>))
    ELSE IF NonNumeric(df, "Purchases") THEN Raise(Exception("TypeError", <<>>))
    ELSE IF QcutRaises(Col(df, "Purchases"))
    THEN Raise(Exception("ValueError", <<>>))
    ELSE IF ~HasCol(df, "Customer_ID")
    THEN Raise(Exception("KeyError", <<"Customer_ID">>))
    ELSE Ok(Drop(DerivedColumns(df), <<"Gender", "Customer_ID">>))

get_numerical_features ==
    <<"Age", "Income", "Purchases", "Income_Age_Ratio", "Purchase_Intensity",
      "Age_Income_Ratio", "Purchase_Age_Ratio", "Income_Relative_To_Gender_Avg",
      "Purchases_Relative_To_Gender_Avg">>

\* prepare_features_for_training(df): the continuous and the binary block.
prepare_features_for_training(df) ==
    Only({ IF ~r.ok THEN [ok |-> FALSE, err |-> r.err,
                          continuous |-> r.df, binary |-> r.df]
           ELSE [ok |-> TRUE, err |-> NoException,
                 continuous |-> Select(r.df, get_numerical_features),
                 binary |-> Drop(r.df, get_numerical_features)]
         : r \in {calculate_derived_features(df)} })

get_cluster_names == (0 :> "Old") @@ (1 :> "Middle Aged") @@ (2 :> "Young")

(***************************************************************************)
(* sklearn as train.py and inference.py use it.  Values are fixed-point    *)
(* integers from here on; a matrix is a sequence of rows.                  *)
(***************************************************************************)
RECURSIVE SqrtBetween(_, _, _)
\* The integer square root of n, between lo and hi.
SqrtBetween(n, lo, hi) ==
    IF lo >= hi THEN lo
    ELSE LET mid == (lo + hi + 1) \div 2
         IN  IF mid * mid <= n THEN SqrtBetween(n, mid, hi)
             ELSE SqrtBetween(n, lo, mid - 1)

ISqrt(n) == SqrtBetween(n, 0, 46340)

Fixed(c) == (c.n * Scale) \div c.d

\* check_array(force_all_finite=True): every cell a finite number, at least
\* one row; otherwise ValueError.
CheckArrayRaises(df) ==
    \/ NRows(df) = 0
    \/ \E i \in 1..NRows(df) : \E k \in Range(df.cols) : ~IsFinite(df.rows[i][k])

\* Normalizer().transform(X) (norm="l2"): each row divided by its Euclidean
\* norm, a zero norm being replaced by 1.
NormalizerTransform(df) ==
    [i \in 1..NRows(df) |->
        LET x    == [j \in 1..Len(df.cols) |-> Fixed(df.rows[i][df.cols[j]])]
            n2   == SumSeq([j \in 1..Len(x) |-> x[j] * x[j]])
            norm == IF ISqrt(n2) = 0 THEN 1 ELSE ISqrt(n2)
        IN  [j \in 1..Len(x) |-> (x[j] * Unit) \div norm]]

\* The values of an all-numeric frame, in column order, at scale Unit.
Values(df) ==
    [i \in 1..NRows(df) |->
        [j \in 1..Len(df.cols) |->
            (df.rows[i][df.cols[j]].n * Unit) \div df.rows[i][df.cols[j]].d]]

\* processed_df: pd.concat([scaled_continuous_df, df_binary], axis=1).
Processed(scaled, names, df_binary) ==
    LET b == Values(df_binary)
    IN  [cols |-> names \o df_binary.cols,
         X    |-> [i \in 1..Len(scaled) |-> scaled[i] \o b[i]]]

\* The principal axes are not computed: a fit picks them among these
\* directions, given as the weight of the j-th feature.
Axes == { [kind |-> "sum"], [kind |-> "alternating"] }

Weight(axis, j) ==
    IF axis.kind = "sum" THEN 1 ELSE IF j % 2 = 1 THEN 1 ELSE -1

ColumnMean(X, j) == SumSeq([i \in 1..Len(X) |-> X[i][j]]) \div Len(X)

\* PCA(n_components).fit(processed_df) with the axes it found.
PCAFit(P, axes) ==
    [feature_names_in_ |-> P.cols,
     mean_             |-> [j \in 1..Len(P.cols) |-> ColumnMean(P.X, j)],
     components_       |-> axes]

\* PCA.fit raises ValueError unless 1 <= n_components <= min(n_samples, n_features).
PCAFitRaises(P, n_components) ==
    \/ n_components < 1
    \/ n_components > Len(P.X)
    \/ n_components > Len(P.cols)

\* PCA.transform raises ValueError when the frame's feature names are not
\* those seen in fit, in the same order.
PCATransformRaises(pca, P) == P.cols # pca.feature_names_in_

\* PCA.transform(X): (X - mean_) . components_^T
PCATransform(pca, P) ==
    [i \in 1..Len(P.X) |->
        [c \in 1..Len(pca.components_) |->
            SumSeq([j \in 1..Len(P.cols) |->
                Weight(pca.components_[c], j) * (P.X[i][j] - pca.mean_[j])])]]

Dist2(x, y) == SumSeq([c \in 1..Len(x) |-> (x[c] - y[c]) * (x[c] - y[c])])

\* The nearest center: the least index among the nearest (argmin).
Nearest(x, centers) ==
    CHOOSE j \in 1..Len(centers) :
        /\ \A m \in 1..Len(centers) : Dist2(x, centers[j]) <= Dist2(x, centers[m])
        /\ \A m \in 1..(j - 1) : Dist2(x, centers[m]) > Dist2(x, centers[j])

\* Labels are 0-based, as sklearn's.
AssignLabels(X, centers) == [i \in 1..Len(X) |-> Nearest(X[i], centers) - 1]

\* The mean of the rows labelled j; a cluster left empty keeps its center.
UpdateCenters(X, labels, centers) ==
    [j \in 1..Len(centers) |->
        LET members == {i \in 1..Len(X) : labels[i] = j - 1}
        IN  IF members = {} THEN centers[j]
            ELSE [c \in 1..Len(centers[j]) |->
                    SumSeq([i \in 1..Len(X) |-> IF i \in members THEN X[i][c] ELSE 0])
                        \div Cardinality(members)]]

\* max_iter of KMeans.
MaxIter == 300

RECURSIVE Lloyd(_, _, _, _)
\* _kmeans_single_lloyd: iterate until the labels repeat (strict convergence)
\* or the centers stop moving or max_iter is reached; in the last two cases
\* the E-step is run once more so that the labels match the centers.
Lloyd(X, centers, labels_old, iter) ==
    Only({ Only({
        IF iter > 1 /\ labels = labels_old
        THEN [cluster_centers_ |-> centers_new, labels_ |-> labels]
        ELSE IF centers_new = centers \/ iter = MaxIter
        THEN [cluster_centers_ |-> centers_new,
              labels_ |-> AssignLabels(X, centers_new)]
        ELSE Lloyd(X, centers_new, labels, iter + 1)
      : centers_new \in {UpdateCenters(X, labels, centers)} })
      : labels \in {AssignLabels(X, centers)} })

\* The seedings init="k-means++" may draw: k rows of the data, in row order.
Seedings(X, k) ==
    {s \in [1..k -> 1..Len(X)] : \A a, b \in 1..k : a < b => s[a] < s[b]}

\* KMeans(n_clusters=k).fit(X) from seeding s.
KMeansFit(X, k, s) ==
    Only({ Lloyd(X, seeds, <<>>, 1) : seeds \in {[j \in 1..k |-> X[s[j]]]} })

\* KMeans.fit raises ValueError when n_samples < n_clusters (or k < 1).
KMeansFitRaises(X, k) == k < 1 \/ Len(X) < k

\* KMeans.predict(X)
KMeansPredict(kmeans, X) == AssignLabels(X, kmeans.cluster_centers_)

\* KMeans.transform(X): the Euclidean distance to every center.
KMeansTransform(kmeans, X) ==
    [i \in 1..Len(X) |->
        [j \in 1..Len(kmeans.cluster_centers_) |->
            ISqrt(Dist2(X[i], kmeans.cluster_centers_[j]))]]

\* silhouette_score, calinski_harabasz_score and davies_bouldin_score raise
\* ValueError unless 2 <= number of distinct labels <= n_samples - 1.
MetricsRaise(labels) ==
    LET n_labels == Cardinality(Range(labels))
    IN  n_labels < 2 \/ n_labels > Len(labels) - 1

(***************************************************************************)
(* Inputs                                                                  *)
(***************************************************************************)
\* A customer record as the file or the request body spells it; text names
\* the numeric fields that hold text which is no number.
Record(age, income, purchases, gender) ==
    [Age |-> age, Income |-> income, Purchases |-> purchases, Gender |-> gender,
     text |-> {}]

TextIn(record, fields) == [record EXCEPT !.text = fields]

\* The raw records batches are made of: the three age brackets, both genders,
\* a zero Age, a zero Income and a zero Purchases.
Pool ==
    { Record(25, 1000, 1, "Male"),  Record(45, 2000, 3, "Female"),
      Record(65, 3000, 2, "Male"),  Record(35, 4000, 4, "Female"),
      Record(0, 500, 0, "Male"),    Record(30, 0, 5, "Female") }

\* The column order of pd.read_csv's frame is the file's.
DocumentedColumns == <<"Customer_ID", "Age", "Income", "Purchases", "Gender">>

ColumnOrders ==
    { DocumentedColumns, <<"Customer_ID", "Income", "Age", "Purchases", "Gender">> }

\* The frame of a list of records, Customer_ID being the row number.  A column
\* besides the five raw fields holds a store number, the same for every row.
FrameOf(cols, recs) ==
    Frame(cols,
          [i \in 1..Len(recs) |->
              [k \in Range(cols) |->
                  CASE k = "Customer_ID" -> IntCell(i)
                    [] k \in recs[i].text -> Str("abc")
                    [] k = "Age"         -> IntCell(recs[i].Age)
                    [] k = "Income"      -> IntCell(recs[i].Income)
                    [] k = "Purchases"   -> IntCell(recs[i].Purchases)
                    [] k = "Gender"      -> Str(recs[i].Gender)
                    [] OTHER             -> IntCell(7)]])

Batches(maxRows) == UNION {[1..n -> Pool] : n \in 0..maxRows}

(***************************************************************************)
(* train.py: train_model                                                   *)
(***************************************************************************)
\* The data files a training run may find on the training channel: the four
\* customers of the reference scenario, five customers, three customers, a
\* customer of Age 0, a file with a repeated row, two files with text in a
\* numeric column, and four customers of whom the middle one appears twice
\* (the quartile edges stay distinct).
TrainingFiles ==
    { <<Record(25, 1000, 1, "Male"), Record(45, 2000, 3, "Female"),
        Record(65, 3000, 2, "Male"), Record(35, 4000, 4, "Female")>>,
      <<Record(25, 1000, 1, "Male"), Record(45, 2000, 3, "Female"),
        Record(65, 3000, 2, "Male"), Record(35, 4000, 4, "Female"),
        Record(55, 2500, 6, "Male")>>,
      <<Record(25, 1000, 1, "Male"), Record(45, 2000, 3, "Female"),
        Record(65, 3000, 2, "Male")>>,
      <<Record(25, 1000, 1, "Male"), Record(45, 2000, 3, "Female"),
        Record(65, 3000, 2, "Male"), Record(0, 500, 0, "Male")>>,
      <<Record(25, 1000, 1, "Male"), Record(25, 1000, 1, "Male"),
        Record(45, 2000, 3, "Female"), Record(65, 3000, 2, "Male")>>,
      <<Record(25, 1000, 1, "Male"), TextIn(Record(45, 2000, 3, "Female"), {"Age"}),
        Record(65, 3000, 2, "Male"), Record(35, 4000, 4, "Female")>>,
      <<Record(25, 1000, 1, "Male"), Record(45, 2000, 3, "Female"),
        TextIn(Record(65, 3000, 2, "Male"), {"Purchases"}),
        Record(35, 4000, 4, "Female")>>,
      <<Record(25, 1000, 1, "Male"), Record(45, 2000, 3, "Female"),
        Record(45, 2000, 3, "Female"), Record(35, 4000, 4, "Female")>> }

\* The header lines of those files: every column, Age missing, Income and
\* Purchases missing.
TrainingHeaders ==
    { DocumentedColumns,
      <<"Customer_ID", "Income", "Purchases", "Gender">>,
      <<"Customer_ID", "Age", "Gender">> }

DEFAULT_N_COMPONENTS == 1

\* Lines 33-41: the processed frame of the training data, or the exception.
TrainProcessed(data) ==
    Only({ IF ~f.ok THEN [ok |-> FALSE, err |-> f.err, P |-> <<>>]
           ELSE IF CheckArrayRaises(f.continuous) \/ CheckArrayRaises(f.binary)
           THEN [ok |-> FALSE, err |-> Exception("ValueError", <<>>), P |-> <<>>]
           ELSE [ok |-> TRUE, err |-> NoException,
                 P |-> Processed(NormalizerTransform(f.continuous),
                                 get_numerical_features, f.binary)]
         : f \in {prepare_features_for_training(data)} })

\* Lines 43-60 on the processed frame P: the fitted models, or the exception;
\* when it is a metric that raises, the three models are fitted by then.
FitModels(P, n_clusters, n_components, axes, seeding) ==
    IF PCAFitRaises(P, n_components) THEN [ok |-> FALSE, err |-> Exception("ValueError", <<>>)]
    ELSE Only({ Only({
        IF KMeansFitRaises(pca_features, n_clusters)
        THEN [ok |-> FALSE, err |-> Exception("ValueError", <<>>)]
        ELSE Only({
            IF MetricsRaise(kmeans.labels_)
            THEN [ok |-> FALSE, err |-> Exception("ValueError", <<>>),
                  normalizer |-> [norm |-> "l2"], pca |-> pca, kmeans |-> kmeans]
            ELSE [ok |-> TRUE, err |-> NoException,
                  normalizer |-> [norm |-> "l2"],
                  pca        |-> pca,
                  kmeans     |-> kmeans,
                  metadata   |->
                      [n_clusters    |-> n_clusters,
                       n_components  |-> n_components,
                       feature_names |-> get_numerical_features,
                       model_version |-> "1.0"]]
          : kmeans \in {KMeansFit(pca_features, n_clusters, seeding)} })
      : pca_features \in {PCATransform(pca, P)} })
      : pca \in {PCAFit(P, axes)} })

\* Lines 27-60 of a run with the given arguments, axes and seeding: the fitted
\* models, or the exception that ends the run.
TrainFit(data, n_clusters, n_components, axes, seeding) ==
    Only({ IF ~t.ok THEN [ok |-> FALSE, err |-> t.err]
           ELSE FitModels(t.P, n_clusters, n_components, axes, seeding)
         : t \in {TrainProcessed(data)} })

\* json.dump of a dict with integer keys writes the keys as strings.
JsonDumpKeys(m) ==
    [k \in {ToString(i) : i \in DOMAIN m} |->
        m[CHOOSE i \in DOMAIN m : ToString(i) = k]]

\* The artifacts of the Model Bundle, in the order lines 67-97 write them.
SaveOrder ==
    <<"normalizer.pkl", "pca_model.pkl", "kmeans_model.pkl",
      "cluster_names.json", "model_metadata.json", "evaluation.json">>

\* What train_model writes to the named file.
Artifact(name, fitted) ==
    CASE name = "normalizer.pkl"      -> fitted.normalizer
      [] name = "pca_model.pkl"       -> fitted.pca
      [] name = "kmeans_model.pkl"    -> fitted.kmeans
      [] name = "cluster_names.json"  -> JsonDumpKeys(get_cluster_names)
      [] name = "model_metadata.json" -> fitted.metadata
      [] OTHER                        -> [metrics |-> "scores"]

\* The feature list in the Metadata of a Bundle that a revision of train.py
\* with another get_numerical_features wrote (line 82): two names in the other
\* order, and one name less.
EarlierFeatureNames ==
    <<"Income", "Age", "Purchases", "Income_Age_Ratio", "Purchase_Intensity",
      "Age_Income_Ratio", "Purchase_Age_Ratio", "Income_Relative_To_Gender_Avg">>

NoFile == [exists |-> FALSE]

File(content) == [exists |-> TRUE, content |-> content]

(***************************************************************************)
(* inference.py: model_fn, input_fn, predict_fn, output_fn                 *)
(***************************************************************************)
BundleFiles ==
    <<"normalizer.pkl", "pca_model.pkl", "kmeans_model.pkl",
      "cluster_names.json", "model_metadata.json">>

NoModel == [loaded |-> FALSE, err |-> NoException]

\* model_fn(model_dir): the five artifacts as a dict; a missing file raises.
model_fn(dir) ==
    IF \E f \in Range(BundleFiles) : ~dir[f].exists
    THEN [loaded |-> FALSE, err |-> Exception("FileNotFoundError", <<>>)]
    ELSE [loaded        |-> TRUE,
          err           |-> NoException,
          normalizer    |-> dir["normalizer.pkl"].content,
          pca_model     |-> dir["pca_model.pkl"].content,
          kmeans_model  |-> dir["kmeans_model.pkl"].content,
          cluster_names |-> dir["cluster_names.json"].content,
          metadata      |-> dir["model_metadata.json"].content]

JsonColumns == <<"Age", "Income", "Purchases", "Gender">>

Request(content_type, shape, cols, recs) ==
    [content_type |-> content_type, shape |-> shape, cols |-> cols, recs |-> recs]

\* The requests a client sends to a process serving a model trained on file:
\* the training file itself as CSV, its records in reverse order, its records
\* with the keys in another order, three records, the single record of
\* test/test.py, four records one of Age 0, records without Income and
\* Purchases, four records one with text for Income, the training file with
\* a sixth column, and an unsupported content type.
Requests(file) ==
    { Request("text/csv", "table", DocumentedColumns, file),
      Request("application/json", "instances", JsonColumns, Reverse(file)),
      Request("application/json", "list",
              <<"Income", "Gender", "Age", "Purchases">>, file),
      Request("application/json", "list", JsonColumns,
              <<Record(25, 1000, 1, "Male"), Record(45, 2000, 3, "Female"),
                Record(65, 3000, 2, "Male")>>),
      Request("application/json", "dict", JsonColumns,
              <<Record(30, 50000, 10, "Male")>>),
      Request("application/json", "instances", JsonColumns,
              <<Record(25, 1000, 1, "Male"), Record(45, 2000, 3, "Female"),
                Record(65, 3000, 2, "Male"), Record(0, 500, 0, "Male")>>),
      Request("application/json", "list", <<"Age", "Gender">>, file),
      Request("application/json", "list", JsonColumns,
              <<Record(25, 1000, 1, "Male"), Record(45, 2000, 3, "Female"),
                TextIn(Record(65, 3000, 2, "Male"), {"Income"}),
                Record(35, 4000, 4, "Female")>>),
      Request("text/csv", "table", DocumentedColumns \o <<"Store_ID">>, file),
      Request("application/xml", "table", JsonColumns, file) }

\* input_fn(request_body, content_type): the frame, or the exception.
input_fn(req) ==
    IF req.content_type \notin {"application/json", "text/csv"}
    THEN Raise(Exception("ValueError", <<>>))
    ELSE LET parsed  == FrameOf(req.cols, req.recs)
             missing == Without(RawColumns, Range(parsed.cols))
         IN  IF missing # <<>> THEN Raise(Exception("ValueError", missing))
             ELSE IF ~HasCol(parsed, "Customer_ID")
             THEN Ok(SetCol(parsed, "Customer_ID",
                            [i \in 1..NRows(parsed) |-> IntCell(i - 1)]))
             ELSE Ok(parsed)

\* (Variant: no copy is taken, and the writes of lines 28-33 reach the
\* caller's frame.)
CallerFrameNoCopy(frame) ==
    SetCol(frame, "Is_Young_Adult",
           [i \in 1..NRows(frame) |->
               Bool(Leq(frame.rows[i]["Age"], IntCell(YoungMaxAge)))])

\* The caller's frame after prepare_features_for_training(frame): the Feature
\* Deriver writes to a copy (preprocessing.py line 25), never to its argument.
CallerFrame(frame) == frame

\* (Variant: the first two continuous columns are taken in the other order
\* than the one training used, and labelled with the training names.)
PredictProcessedSkewed(input_data) ==
    Only({ IF ~f.ok THEN [ok |-> FALSE, err |-> f.err, P |-> <<>>]
           ELSE IF CheckArrayRaises(f.continuous) \/ CheckArrayRaises(f.binary)
           THEN [ok |-> FALSE, err |-> Exception("ValueError", <<>>), P |-> <<>>]
           ELSE [ok |-> TRUE, err |-> NoException,
                 P |-> Processed(
                           NormalizerTransform(
                               Select(f.continuous,
                                      <<get_numerical_features[2], get_numerical_features[1]>>
                                          \o SubSeq(get_numerical_features, 3,
                                                    Len(get_numerical_features)))),
                           get_numerical_features, f.binary)]
         : f \in {prepare_features_for_training(input_data)} })

\* Lines 99-105: the processed frame of a request, or the exception.
PredictProcessed(input_data) ==
    Only({ IF ~f.ok THEN [ok |-> FALSE, err |-> f.err, P |-> <<>>]
           ELSE IF CheckArrayRaises(f.continuous) \/ CheckArrayRaises(f.binary)
           THEN [ok |-> FALSE, err |-> Exception("ValueError", <<>>), P |-> <<>>]
           ELSE [ok |-> TRUE, err |-> NoException,
                 P |-> Processed(NormalizerTransform(f.continuous),
                                 get_numerical_features, f.binary)]
         : f \in {prepare_features_for_training(input_data)} })

\* (Variant: the integer id is looked up, which no key of the loaded map
\* equals.)
SegmentNameIntKey(cluster_names, cluster) == "Cluster_" \o ToString(cluster)

\* cluster_names.get(str(cluster), f"Cluster_{cluster}")
SegmentName(cluster_names, cluster) ==
    IF ToString(cluster) \in DOMAIN cluster_names
    THEN cluster_names[ToString(cluster)]
    ELSE "Cluster_" \o ToString(cluster)

\* (Variant: the distance to the first center, distances[:, 0].)
FirstOf(s) == Head(s)

\* np.min over the distances of one row.
MinOf(s) == CHOOSE x \in Range(s) : \A y \in Range(s) : x <= y

\* float(distance): the fixed-point distance as a number.
Distance(d) == Num(d, Unit)

\* (Variant: 1.0 - distance.)
ConfidenceLinear(distance) == Num(distance.d - distance.n, distance.d)

\* float(1.0 / (1.0 + distance))
Confidence(distance) == Div(IntCell(1), Add(IntCell(1), distance))

\* (Variant: the last element is left out.)
ResultsButLast(cluster_predictions, segment_names, min_distances) ==
    [i \in 1..(Len(cluster_predictions) - 1) |->
        [cluster_id         |-> cluster_predictions[i],
         segment            |-> segment_names[i],
         confidence         |-> Div(IntCell(1), Add(IntCell(1), Num(min_distances[i], Unit))),
         distance_to_center |-> Num(min_distances[i], Unit)]]

\* Lines 114-121: one result per element of the three zipped sequences.
Results(cluster_predictions, segment_names, min_distances) ==
    [i \in 1..Len(cluster_predictions) |->
        [cluster_id         |-> cluster_predictions[i],
         segment            |-> segment_names[i],
         confidence         |-> Confidence(Distance(min_distances[i])),
         distance_to_center |-> Distance(min_distances[i])]]

NoPrediction == [called |-> FALSE]

Raised(e) == [called |-> TRUE, ok |-> FALSE, err |-> e]

\* Lines 106-128 on the processed frame P.
Predict(P, model) ==
    IF PCATransformRaises(model.pca_model, P)
    THEN Raised(Exception("ValueError", <<>>))
    ELSE Only({ Only({ Only({
        [called         |-> TRUE,
         ok             |-> TRUE,
         err            |-> NoException,
         predictions    |->
             Results(cluster_predictions,
                     [i \in 1..Len(cluster_predictions) |->
                         SegmentName(model.cluster_names, cluster_predictions[i])],
                     [i \in 1..Len(distances) |-> MinOf(distances[i])]),
         model_metadata |-> model.metadata]
      : distances \in {KMeansTransform(model.kmeans_model, pca_features)} })
      : cluster_predictions \in {KMeansPredict(model.kmeans_model, pca_features)} })
      : pca_features \in {PCATransform(model.pca_model, P)} })

\* predict_fn(input_data, model): the response dict, or the exception.
predict_fn(input_data, model) ==
    Only({ IF ~t.ok THEN Raised(t.err) ELSE Predict(t.P, model)
         : t \in {PredictProcessed(input_data)} })

NoResponse == [sent |-> FALSE]

\* output_fn(prediction, accept): json.dumps(prediction), whatever accept is.
output_fn(prediction) ==
    [sent |-> TRUE, content_type |-> "application/json",
     predictions |-> prediction.predictions,
     model_metadata |-> prediction.model_metadata]

NoInput == [ok |-> FALSE, err |-> Exception("no request", <<>>), df |-> Frame(<<>>, <<>>)]

Nothing == [set |-> FALSE]

(***************************************************************************)
(* State                                                                   *)
(***************************************************************************)
VARIABLES
    df,          \* the frame handed to calculate_derived_features
    df_derived,  \* what the call returned (NotCalled before it)
    train_file,  \* the records of the data file on the training channel
    train_cols,  \* the columns of that file
    pc,          \* train_model: "start", the file it writes next, "done", "failed"
    fitted,      \* train_model's fitted models and metadata
    model_dir,   \* the output location: file name -> NoFile or File(content)
    model,       \* the serving process's Model Bundle (NoModel before model_fn)
    request,     \* the request the serving process handles
    input_data,  \* the frame input_fn returned for the current request
    prediction,  \* what predict_fn returned for it, with the frame it was given
    response,    \* what output_fn returned for it
    remembered   \* an earlier call of predict_fn: its frame and its result

vars == <<df, df_derived, train_file, train_cols, pc, fitted, model_dir,
          model, request, input_data, prediction, response, remembered>>

NotCalled == [ok |-> FALSE, err |-> Exception("not called", <<>>),
              df |-> Frame(<<>>, <<>>)]

NotFitted == [ok |-> FALSE, err |-> Exception("not fitted", <<>>)]

EmptyDir == [f \in Range(SaveOrder) |-> NoFile]

deriveVars == <<df, df_derived>>

trainVars == <<train_file, train_cols, pc, fitted, model_dir>>

serveVars == <<model, request, input_data, prediction, response, remembered>>

NoRequest == Request("", "", <<>>, <<>>)

(***************************************************************************)
(* The Feature Deriver applied to every batch within the bounds            *)
(***************************************************************************)
InitDerive ==
    /\ df \in {FrameOf(cols, recs) : cols \in ColumnOrders, recs \in Batches(MaxRows)}
    /\ df_derived = NotCalled
    /\ train_file = <<>>
    /\ train_cols = <<>>
    /\ pc = "off"
    /\ fitted = NotFitted
    /\ model_dir = EmptyDir
    /\ model = NoModel
    /\ request = NoRequest
    /\ input_data = NoInput
    /\ prediction = NoPrediction
    /\ response = NoResponse
    /\ remembered = Nothing

CalculateDerivedFeatures ==
    /\ df_derived = NotCalled
    /\ df_derived' = calculate_derived_features(df)
    /\ UNCHANGED <<df, trainVars, serveVars>>

NextDerive == CalculateDerivedFeatures

SpecDerive == InitDerive /\ [][NextDerive]_vars

(***************************************************************************)
(* The training run                                                        *)
(***************************************************************************)
Init ==
    /\ df = Frame(<<>>, <<>>)
    /\ df_derived = NotCalled
    /\ train_file \in TrainingFiles
    /\ train_cols \in TrainingHeaders
    /\ pc = "start"
    /\ fitted = NotFitted
    /\ model_dir = EmptyDir
    /\ model = NoModel
    /\ request = NoRequest
    /\ input_data = NoInput
    /\ prediction = NoPrediction
    /\ response = NoResponse
    /\ remembered = Nothing

\* Lines 27-64: load, prepare, fit, score.  An exception ends the run.
TrainModelFit ==
    /\ pc = "start"
    /\ \E n_clusters \in 1..MaxK :
       \E axis \in Axes :
       \E seeding \in Seedings(train_file, IF n_clusters <= Len(train_file)
                                           THEN n_clusters ELSE 0) :
       \E data \in {FrameOf(train_cols, train_file)} :
       \E r \in {TrainFit(data, n_clusters, DEFAULT_N_COMPONENTS, <<axis>>, seeding)} :
          /\ fitted' = r
          /\ pc' = IF r.ok THEN SaveOrder[1] ELSE "failed"
    /\ UNCHANGED <<deriveVars, train_file, train_cols, model_dir, serveVars>>

SavePosition == CHOOSE i \in 1..Len(SaveOrder) : SaveOrder[i] = pc

\* One of lines 67-97: the next file is written.
TrainModelSave ==
    /\ pc \in Range(SaveOrder)
    /\ model_dir' = [model_dir EXCEPT ![pc] = File(Artifact(pc, fitted))]
    /\ pc' = IF SavePosition = Len(SaveOrder) THEN "done"
             ELSE SaveOrder[SavePosition + 1]
    /\ UNCHANGED <<deriveVars, train_file, train_cols, fitted, serveVars>>

\* A write raises (OSError): the run ends with what was written so far.
TrainModelSaveFails ==
    /\ pc \in Range(SaveOrder)
    /\ pc' = "failed"
    /\ UNCHANGED <<deriveVars, train_file, train_cols, fitted, model_dir, serveVars>>

\* The location the serving process reads is handed a Bundle whose Metadata
\* lists the features of that other revision.
EarlierMetadata ==
    /\ pc = "done"
    /\ ~model.loaded
    /\ model_dir["model_metadata.json"].content.feature_names = get_numerical_features
    /\ model_dir' =
           [model_dir EXCEPT !["model_metadata.json"] =
               File([@.content EXCEPT !.feature_names = EarlierFeatureNames])]
    /\ UNCHANGED <<deriveVars, train_file, train_cols, pc, fitted, serveVars>>

(***************************************************************************)
(* The serving process                                                     *)
(***************************************************************************)
\* The process starts (or starts again after a failed load) once the training
\* run has ended: model_fn runs on whatever the output location holds.
ModelFn ==
    /\ ~model.loaded
    /\ pc \in {"done", "failed"}
    /\ model' = model_fn(model_dir)
    /\ UNCHANGED <<deriveVars, trainVars, request, input_data, prediction,
                   response, remembered>>

\* The handlers of a request run one after the other: the request before is
\* answered, or one of its handlers raised.
Idle ==
    \/ request = NoRequest
    \/ ~input_data.ok
    \/ prediction.called /\ (~prediction.result.ok \/ response.sent)

\* A request arrives: input_fn parses it.
InputFn ==
    /\ model.loaded
    /\ Idle
    /\ \E req \in Requests(train_file) :
          /\ request' = req
          /\ input_data' = input_fn(req)
    /\ prediction' = NoPrediction
    /\ response' = NoResponse
    /\ UNCHANGED <<deriveVars, trainVars, model, remembered>>

\* predict_fn runs on the parsed frame.  One call may be remembered, to be
\* compared with the later ones; "intervening" then tells whether a call on
\* another batch came after it.
PredictFn ==
    /\ model.loaded
    /\ input_data.ok
    /\ ~prediction.called
    /\ \E result \in {predict_fn(input_data.df, model)} :
          /\ prediction' = [given |-> input_data.df, result |-> result,
                            called |-> TRUE]
          /\ \/ /\ ~remembered.set
                /\ UNCHANGED remembered
             \/ /\ ~remembered.set
                /\ remembered' = [set |-> TRUE, given |-> input_data.df,
                                  result |-> result, intervening |-> FALSE]
             \/ /\ remembered.set
                /\ remembered' =
                       [remembered EXCEPT !.intervening =
                           @ \/ remembered.given # input_data.df]
    /\ input_data' = [input_data EXCEPT !.df = CallerFrame(input_data.df)]
    /\ UNCHANGED <<deriveVars, trainVars, model, request, response>>

\* output_fn serialises a prediction that did not raise.
OutputFn ==
    /\ prediction.called
    /\ prediction.result.ok
    /\ ~response.sent
    /\ response' = output_fn(prediction.result)
    /\ UNCHANGED <<deriveVars, trainVars, model, request, input_data, prediction,
                   remembered>>

Next ==
    \/ TrainModelFit
    \/ TrainModelSave
    \/ TrainModelSaveFails
    \/ EarlierMetadata
    \/ ModelFn
    \/ InputFn
    \/ PredictFn
    \/ OutputFn

Spec == Init /\ [][Next]_vars

(***************************************************************************)
(* Properties                                                              *)
(***************************************************************************)
\* The engineered table's columns for a file in the documented column order.
FeatureNames ==
    <<"Age", "Income", "Purchases",
      "Is_Young_Adult", "Is_Middle_Aged", "Is_Senior", "IS_MALE",
      "Income_Quartile_Q2_Medium_Low", "Income_Quartile_Q3_Medium_High",
      "Income_Quartile_Q4_High", "Income_Age_Ratio",
      "Purchase_Quartile_Q2_Medium_Low", "Purchase_Quartile_Q3_Medium_High",
      "Purchase_Quartile_Q4_High", "Purchase_Intensity", "Age_Income_Ratio",
      "Purchase_Age_Ratio", "Income_Relative_To_Gender_Avg",
      "Purchases_Relative_To_Gender_Avg">>

\* A valid raw batch: the five columns, every Age positive.
ValidBatch(frame) ==
    /\ Range(frame.cols) = Range(DocumentedColumns)
    /\ \A i \in 1..NRows(frame) : frame.rows[i]["Age"].n > 0

HasZeroAge(frame) == \E i \in 1..NRows(frame) : frame.rows[i]["Age"].n = 0

AllFinite(frame) ==
    \A i \in 1..NRows(frame) : \A k \in Range(frame.cols) : IsFinite(frame.rows[i][k])

TrainingFrame == FrameOf(DocumentedColumns, train_file)

\* The results of the current prediction, and those of the remembered one.
CurrentResults ==
    IF prediction.called /\ prediction.result.ok
    THEN Range(prediction.result.predictions) ELSE {}

RememberedResults ==
    IF remembered.set /\ remembered.result.ok
    THEN Range(remembered.result.predictions) ELSE {}

Less(a, b) == a.n * b.d < b.n * a.d

\* C1: for every valid batch of N >= 4 records calculate_derived_features
\* returns a table of N rows whose columns are exactly the fixed feature-name
\* list in its fixed order, whatever the values and the input's column order.
C1_FixedFeatureList ==
    (df_derived # NotCalled /\ ValidBatch(df) /\ NRows(df) >= Q)
        => /\ df_derived.ok
           /\ NRows(df_derived.df) = NRows(df)
           /\ df_derived.df.cols = FeatureNames

\* C2: a batch of fewer than 4 records is rejected by the Feature Deriver, at
\* training and at inference, and no Prediction Result is produced for it.
C2_SmallBatchRejected ==
    /\ (prediction.called /\ NRows(prediction.given) < Q) => ~prediction.result.ok
    /\ (pc # "start" /\ Len(train_file) < Q) => ~fitted.ok

\* C3: a batch with a record of Age = 0 is rejected: the Feature Deriver fails
\* and returns no feature table.
C3_ZeroAgeRejected ==
    (df_derived # NotCalled /\ HasZeroAge(df)) => ~df_derived.ok

\* C4: no NaN and no infinite value appears in the feature table the Feature
\* Deriver hands to the next stage: a division by zero ends in an error.
C4_NoNonFiniteFeature ==
    df_derived.ok => AllFinite(df_derived.df)

\* C5: train/serve parity: predict_fn, with the models fitted on a batch and
\* given that same batch, returns for every row the cluster id training
\* assigned to that row.
C5_TrainServeParity ==
    (model.loaded /\ prediction.called /\ prediction.given = TrainingFrame)
        => /\ prediction.result.ok
           /\ Len(prediction.result.predictions) = Len(train_file)
           /\ \A i \in 1..Len(train_file) :
                 prediction.result.predictions[i].cluster_id
                     = model.kmeans_model.labels_[i]

C5_Witness ==
    /\ model.loaded
    /\ prediction.called
    /\ prediction.given = TrainingFrame
    /\ prediction.result.ok
    /\ Len(train_file) > Q
    /\ model.metadata.n_clusters = 3
    /\ Cardinality({r.cluster_id : r \in CurrentResults}) = 3

C7_ConfidenceBounds ==
    /\ \A r \in CurrentResults \cup RememberedResults :
          /\ IsFinite(r.distance_to_center) /\ IsFinite(r.confidence)
          /\ r.distance_to_center.n >= 0 /\ r.distance_to_center.d > 0
          /\ r.confidence.n * (r.distance_to_center.d + r.distance_to_center.n)
                = r.confidence.d * r.distance_to_center.d
          /\ Less(IntCell(0), r.confidence)
          /\ Leq(r.confidence, IntCell(1))
    /\ \A r1, r2 \in CurrentResults \cup RememberedResults :
          Less(r1.distance_to_center, r2.distance_to_center)
              => Less(r2.confidence, r1.confidence)

C7_Witness ==
    \E r1, r2 \in CurrentResults :
        /\ EqInt(r1.distance_to_center, 0)
        /\ EqInt(r1.confidence, 1)
        /\ Less(r1.distance_to_center, r2.distance_to_center)

\* C8: segment naming never fails a prediction: a cluster id gets the label
\* stored for it in the persisted Segment Name Map when there is one, and
\* "Cluster_<id>" when there is none.
C8_SegmentNaming ==
    \A r \in CurrentResults :
        r.segment = IF r.cluster_id \in DOMAIN get_cluster_names
                    THEN get_cluster_names[r.cluster_id]
                    ELSE "Cluster_" \o ToString(r.cluster_id)

C8_Witness ==
    /\ \E r \in CurrentResults : r.cluster_id = 3 /\ r.segment = "Cluster_3"
    /\ \E r \in CurrentResults : r.cluster_id = 0 /\ r.segment = "Old"

\* C9: the Segment Name Map a training run with cluster count k persists has
\* an entry for every cluster id 0..k-1, for every configured k.
C9_NameMapCoversAllIds ==
    model_dir["cluster_names.json"].exists
        => \A id \in 0..(fitted.metadata.n_clusters - 1) :
              ToString(id) \in DOMAIN model_dir["cluster_names.json"].content

\* The clusters KMeans.predict gives the rows of frame under the Bundle.
RowClusters(frame) ==
    Only({ KMeansPredict(model.kmeans_model, PCATransform(model.pca_model, r.P))
           : r \in {PredictProcessed(frame)} })

\* C10: for an accepted batch of N records predict_fn returns exactly N
\* Prediction Results, the i-th being that of the i-th input record, each with
\* an integer cluster_id in [0, k), k the Bundle's cluster count.
C10_OneResultPerRecord ==
    (prediction.called /\ prediction.result.ok)
        => /\ Len(prediction.result.predictions) = NRows(prediction.given)
           /\ \A clusters \in {RowClusters(prediction.given)} :
                 \A i \in 1..NRows(prediction.given) :
                    /\ prediction.result.predictions[i].cluster_id
                           \in 0..(model.metadata.n_clusters - 1)
                    /\ prediction.result.predictions[i].cluster_id = clusters[i]

C10_Witness ==
    /\ prediction.called
    /\ prediction.result.ok
    /\ NRows(prediction.given) = 5
    /\ Len(prediction.result.predictions) = 5
    /\ model.metadata.n_clusters = 3
    /\ prediction.given # TrainingFrame

\* The required raw fields a batch lacks, or holds text in where a number is
\* expected.
Offending(cols, recs) ==
    {c \in Range(RawColumns) :
        \/ c \notin Range(cols)
        \/ c # "Gender" /\ \E i \in 1..Len(recs) : c \in recs[i].text}

\* The exception names every one of the columns.
Names(err, columns) == columns \subseteq Range(err.names)

\* C11: a batch that lacks a required raw field, or holds text where a number
\* is expected, is rejected as a whole with an error that names the offending
\* columns, on the training path and on the serving path, and nothing is
\* produced for it.
C11_ValidationErrorNamesColumns ==
    /\ (pc # "start" /\ Offending(train_cols, train_file) # {})
          => /\ ~fitted.ok
             /\ Names(fitted.err, Offending(train_cols, train_file))
             /\ model_dir = EmptyDir
    /\ (/\ request # NoRequest
        /\ request.content_type \in {"application/json", "text/csv"}
        /\ Offending(request.cols, request.recs) # {})
          => /\ ~input_data.ok
                   => Names(input_data.err, Offending(request.cols, request.recs))
             /\ (input_data.ok /\ prediction.called)
                   => /\ ~prediction.result.ok
                      /\ Names(prediction.result.err,
                               Offending(request.cols, request.recs))
             /\ ~response.sent

\* C12: loading a Model Bundle fails when the feature list in its Metadata
\* differs from get_numerical_features: model_fn raises, so neither a loaded
\* Bundle nor a prediction ever goes with a mismatching list.
C12_FeatureListValidatedOnLoad ==
    /\ model.loaded => model.metadata.feature_names = get_numerical_features
    /\ (prediction.called /\ prediction.result.ok)
          => prediction.result.model_metadata.feature_names = get_numerical_features

\* C13: the Model Bundle is created atomically: in every state of a training
\* run, a failed save included, the output location holds none of the five
\* artifacts of the Bundle or all of them.
C13_AtomicBundle ==
    \/ \A f \in Range(BundleFiles) : ~model_dir[f].exists
    \/ \A f \in Range(BundleFiles) : model_dir[f].exists

\* The run has fitted scaler, reducer and clusterer.
ModelsFitted == {"normalizer", "pca", "kmeans"} \subseteq DOMAIN fitted

\* C14: the quality metrics do not gate training: once scaler, reducer and
\* clusterer are fitted the run goes on to persist the Bundle, also when a
\* metric cannot be computed for the labelling.
C14_MetricsDoNotGate ==
    ModelsFitted => /\ fitted.ok
                    /\ pc \in Range(SaveOrder) \cup {"done", "failed"}
                    /\ pc = "done" => \A f \in Range(BundleFiles) : model_dir[f].exists

\* The reduced vectors pca_model.transform gives the rows of frame.
RowVectors(frame) ==
    Only({ PCATransform(model.pca_model, r.P) : r \in {PredictProcessed(frame)} })

\* The fixed-point distance from vector x to the center of cluster id.
CenterDistance(x, id) ==
    ISqrt(Dist2(x, model.kmeans_model.cluster_centers_[id + 1]))

\* C15: in every Prediction Result distance_to_center is the Euclidean distance
\* from the record's reduced vector to the center of the cluster reported as
\* cluster_id, and no center is nearer, also when two centers are equally near.
C15_DistanceToAssignedCenter ==
    (prediction.called /\ prediction.result.ok)
        => \A X \in {RowVectors(prediction.given)} :
              \A i \in 1..Len(prediction.result.predictions) :
                 \A r \in {prediction.result.predictions[i]} :
                    /\ r.distance_to_center
                          = Distance(CenterDistance(X[i], r.cluster_id))
                    /\ \A id \in 0..(Len(model.kmeans_model.cluster_centers_) - 1) :
                          CenterDistance(X[i], r.cluster_id) <= CenterDistance(X[i], id)

\* A result whose record is equally near to its center and to another one,
\* beside a result whose record has a second center farther away.
C15_Witness ==
    /\ prediction.called
    /\ prediction.result.ok
    /\ \E X \in {RowVectors(prediction.given)} :
          /\ \E i \in 1..Len(prediction.result.predictions) :
                \E id \in 0..(Len(model.kmeans_model.cluster_centers_) - 1) :
                   /\ id # prediction.result.predictions[i].cluster_id
                   /\ CenterDistance(X[i], id)
                         = CenterDistance(X[i], prediction.result.predictions[i].cluster_id)
          /\ \E i \in 1..Len(prediction.result.predictions) :
                \E id \in 0..(Len(model.kmeans_model.cluster_centers_) - 1) :
                   CenterDistance(X[i], id)
                       > CenterDistance(X[i], prediction.result.predictions[i].cluster_id)

\* C16: prepare_features_for_training splits the engineered table's columns
\* into two disjoint blocks that cover them: the continuous block is exactly
\* the list of get_numerical_features, the binary block holds the other
\* columns in table order and every value in it is 0 or 1; for every batch
\* input_fn accepts, one with columns besides the five raw fields included.
C16_ContinuousBinaryPartition ==
    (request # NoRequest /\ input_data.ok /\ prediction.called)
        => \A f \in {prepare_features_for_training(prediction.given)} :
           \A t \in {calculate_derived_features(prediction.given)} :
              f.ok => /\ f.continuous.cols = get_numerical_features
                      /\ Range(f.continuous.cols) \cap Range(f.binary.cols) = {}
                      /\ Range(f.continuous.cols) \cup Range(f.binary.cols)
                            = Range(t.df.cols)
                      /\ f.binary.cols = Without(t.df.cols, Range(get_numerical_features))
                      /\ \A i \in 1..NRows(f.binary) : \A k \in Range(f.binary.cols) :
                            EqInt(f.binary.rows[i][k], 0) \/ EqInt(f.binary.rows[i][k], 1)

====
